---------------------------- MODULE Spec2Model ----------------------------
(***************************************************************************)
(* A model of cryptid-rs: Config (src/src/config.rs) and Codec             *)
(* (src/src/codec.rs).                                                      *)
(*                                                                         *)
(* Representation.  A byte is a number in 0..255.  A u64 is held as the    *)
(* sequence of its eight little-endian bytes and a u128 as the sequence of *)
(* its sixteen little-endian bytes (TLC's integers are 32 bits wide), so   *)
(* to_le_bytes / from_le_bytes keep the representation; every other        *)
(* conversion (trimming, zero extension, base62) is computed.  A string is *)
(* a sequence of one-character strings.                                    *)
(*                                                                         *)
(* The three primitives of other crates are modelled by what the code      *)
(* relies on: HKDF-expand and HMAC-SHA256 as deterministic keyed           *)
(* functions, FF1 (radix 2) as a keyed, length-preserving bijection whose  *)
(* encrypt and decrypt reject numeral strings shorter than 20 bits.        *)
(***************************************************************************)
EXTENDS Integers, Sequences, FiniteSets, TLC

\* ------------------------------------------------------------------ bytes

\* Maximum number of bytes we can base62 encode (an u128).
MAX_BUFFER == 16

\* The sentinel byte, in case we don't fill the full 16 bytes.
SENTINEL == 1

\* Size of a u64 in bytes (the array of le_vec_to_num, num.to_le_bytes()).
U64_BYTES == 8

\* Size of an HMAC-SHA256 tag in bytes, before truncation.
MAC_BYTES == 32

\* Largest value a Config setter accepts for either length.
MAX_LENGTH == 8

\* FF1 over radix 2 rejects numeral strings shorter than 20 bits, that is
\* byte strings shorter than 3 bytes.
FF1_MIN_BYTES == 3

Zeros(n) == [i \in 1..n |-> 0]

Max2(a, b) == IF a >= b THEN a ELSE b

Take(s, n) == SubSeq(s, 1, n)

Drop(s, n) == SubSeq(s, n + 1, Len(s))

\* The panic of a failed expect(), unwrap() or slice bound check.
Panic(where) == [kind |-> "panic", at |-> where]

Ok(v) == [kind |-> "Ok", val |-> v]

Err(k) == [kind |-> k]

\* bytes.iter().rposition(|&b| b != 0).unwrap_or(0): a 0-based index.
last_nonzero(bytes) ==
    LET nz == {i \in 1..Len(bytes) : bytes[i] # 0}
    IN  IF nz = {} THEN 0 ELSE (CHOOSE i \in nz : \A j \in nz : j <= i) - 1

\* num: a u64 (eight little-endian bytes).  The slice bytes[..prefix_length]
\* panics when prefix_length exceeds 8.
num_to_le_vec(num, min_length) ==
    LET prefix_length == Max2(last_nonzero(num) + 1, min_length)
    IN  IF prefix_length > Len(num) THEN Panic("num_to_le_vec")
        ELSE Ok(Take(num, prefix_length))

\* arr[..bytes.len()].copy_from_slice(bytes) panics when bytes is longer
\* than the 8-byte array.
le_vec_to_num(bytes) ==
    IF Len(bytes) > U64_BYTES THEN Panic("le_vec_to_num")
    ELSE Ok(bytes \o Zeros(U64_BYTES - Len(bytes)))

\* ----------------------------------------------------------------- base62

\* The standard alphabet of the base62 crate: digits, upper case, lower case.
Alphabet ==
    << "0","1","2","3","4","5","6","7","8","9",
       "A","B","C","D","E","F","G","H","I","J","K","L","M",
       "N","O","P","Q","R","S","T","U","V","W","X","Y","Z",
       "a","b","c","d","e","f","g","h","i","j","k","l","m",
       "n","o","p","q","r","s","t","u","v","w","x","y","z" >>

Base == Len(Alphabet)

\* The characters of the model's strings: the alphabet and three others.
CharTable == Alphabet \o << "_", "/", "+" >>

\* The value of each character as a base62 digit, -1 outside the alphabet.
DigitValue ==
    [c \in {CharTable[i] : i \in 1..Len(CharTable)} |->
        IF \E i \in 1..Base : Alphabet[i] = c
        THEN (CHOOSE i \in 1..Base : Alphabet[i] = c) - 1
        ELSE -1]

DigitOf(c) == DigitValue[c]

\* One long division of a little-endian number by 62, from byte i down to
\* byte 1 with remainder rem carried in: <<quotient, remainder>>.
RECURSIVE DivBase(_, _, _)
DivBase(bytes, i, rem) ==
    IF i = 0 THEN << <<>>, rem >>
    ELSE LET cur  == rem * 256 + bytes[i]
             rest == DivBase(bytes, i - 1, cur % Base)
         IN  << Append(rest[1], cur \div Base), rest[2] >>

RECURSIVE EncodeDigits(_, _)
EncodeDigits(bytes, acc) ==
    IF \A i \in 1..Len(bytes) : bytes[i] = 0 THEN acc
    ELSE LET qr == DivBase(bytes, Len(bytes), 0)
         IN  EncodeDigits(qr[1], <<Alphabet[qr[2] + 1]>> \o acc)

\* base62::encode of a u128: no leading zeros, "0" for zero.
base62_encode(num) ==
    IF \A i \in 1..Len(num) : num[i] = 0 THEN <<"0">>
    ELSE EncodeDigits(num, <<>>)

\* acc * 62 + carry over little-endian bytes from byte i on:
\* <<bytes, carry out>>.
RECURSIVE MulAdd(_, _, _)
MulAdd(bytes, i, carry) ==
    IF i > Len(bytes) THEN << <<>>, carry >>
    ELSE LET t    == bytes[i] * Base + carry
             rest == MulAdd(bytes, i + 1, t \div 256)
         IN  << <<t % 256>> \o rest[1], rest[2] >>

RECURSIVE DecodeDigits(_, _, _)
DecodeDigits(str, i, acc) ==
    IF i > Len(str) THEN Ok(acc)
    ELSE LET d == DigitOf(str[i])
         IN  IF d < 0 THEN Err("DecodingFailed")
             ELSE LET m == MulAdd(acc, 1, d)
                  IN  IF m[2] # 0 THEN Err("DecodingFailed")
                      ELSE DecodeDigits(str, i + 1, m[1])

\* base62::decode to a u128: an empty input, a character outside the
\* alphabet and a value above u128::MAX are each a DecodeError, which
\* From<base62::DecodeError> turns into Error::DecodingFailed.
base62_decode(str) ==
    IF Len(str) = 0 THEN Err("DecodingFailed")
    ELSE DecodeDigits(str, 1, Zeros(MAX_BUFFER))


\* ------------------------------------------------------------- primitives

\* A numeric code for each character.
CharCode(c) == CHOOSE i \in 1..Len(CharTable) : CharTable[i] = c

RECURSIVE WeightedSum(_, _)
WeightedSum(s, w) ==
    IF s = <<>> THEN 0
    ELSE (Len(s) + w) * s[Len(s)] + WeightedSum(Take(s, Len(s) - 1), w)

\* Hkdf::<Sha256>::new(None, key).expand(info, &mut [0u8; 32]): the subkey
\* is a deterministic function of the master key and the label.
hkdf_expand(key, info) ==
    (5 * WeightedSum(key, 0)
       + WeightedSum([i \in 1..Len(info) |-> CharCode(info[i])], 2) + 11) % 256

\* The full HMAC-SHA256 tag of data under a MAC subkey.
hmac_sha256(key, data) ==
    [i \in 1..MAC_BYTES |->
        (key + 13 * i + 7 * Len(data) + WeightedSum(data, i)) % 256]

\* FF1::encrypt over radix 2 with an empty tweak: an error below the
\* minimum length, else a keyed permutation of the strings of that length.
ff1_encrypt(key, x) ==
    LET n == Len(x)
    IN  IF n < FF1_MIN_BYTES THEN Err("NumeralStringError")
        ELSE Ok([i \in 1..n |-> (x[n + 1 - i] + key + 31 * i + n) % 256])

\* FF1::decrypt: the inverse of ff1_encrypt, with the same length check.
ff1_decrypt(key, y) ==
    LET n == Len(y)
    IN  IF n < FF1_MIN_BYTES THEN Err("NumeralStringError")
        ELSE Ok([j \in 1..n |->
                   (y[n + 1 - j] + 1024 - key - 31 * (n + 1 - j) - n) % 256])

\* ----------------------------------------------------------------- Config

ConfigNew(key) == [hmac_length |-> 4, key |-> key, zero_pad_length |-> 4]

Config_hmac_length(self, hmac_length) ==
    IF hmac_length > MAX_LENGTH THEN Err("InvalidMacLength")
    ELSE Ok([self EXCEPT !.hmac_length = hmac_length])

\* Config_zero_pad_length with its bound off by one: 9 is accepted.
Config_zero_pad_length_lax(self, zero_pad_length) ==
    IF zero_pad_length > MAX_LENGTH + 1 THEN Err("InvalidZeroPadLength")
    ELSE Ok([self EXCEPT !.zero_pad_length = zero_pad_length])

Config_zero_pad_length(self, zero_pad_length) ==
    IF zero_pad_length > MAX_LENGTH THEN Err("InvalidZeroPadLength")
    ELSE Ok([self EXCEPT !.zero_pad_length = zero_pad_length])

\* ------------------------------------------------------------------ Codec

CodecNew(name, config) ==
    [ ff1             |-> hkdf_expand(config.key, name \o <<"/", "f", "f", "1">>),
      hmac            |-> hkdf_expand(config.key, name \o <<"/", "h", "m", "a", "c">>),
      hmac_length     |-> config.hmac_length,
      prefix          |-> name \o <<"_">>,
      zero_pad_length |-> config.zero_pad_length ]

\* truncated_mac without the truncation: the whole tag.
untruncated_mac(key, data, hmac_length) == hmac_sha256(key, data)

\* hmac.finalize().into_bytes()[..hmac_length]
truncated_mac(key, data, hmac_length) ==
    Take(hmac_sha256(key, data), hmac_length)

encrypt_number(ff1, hmac, hmac_length, zero_pad_length, num) ==
    LET pt == num_to_le_vec(num, zero_pad_length)
    IN  IF pt.kind # "Ok" THEN pt
        ELSE LET encrypted_num == ff1_encrypt(ff1, pt.val)
             IN  IF encrypted_num.kind # "Ok" THEN Panic("encrypt_number")
                 ELSE Ok(encrypted_num.val
                           \o truncated_mac(hmac, encrypted_num.val, hmac_length))

\* encode_u128 that writes the sentinel after the payload's first byte
\* (an offset taken from the wrong variable).
encode_u128_sentinel_misplaced(self, num) ==
    LET bytes == encrypt_number(self.ff1, self.hmac, self.hmac_length,
                                self.zero_pad_length, num)
    IN  IF bytes.kind # "Ok" THEN bytes
        ELSE IF Len(bytes.val) > MAX_BUFFER THEN Panic("encode_u128")
        ELSE IF Len(bytes.val) < MAX_BUFFER
             THEN Ok(bytes.val \o <<0, SENTINEL>>
                       \o Zeros(MAX_BUFFER - Len(bytes.val) - 2))
             ELSE Ok(bytes.val)

\* The packed u128: the payload, the sentinel after it if there is room.
encode_u128(self, num) ==
    LET bytes == encrypt_number(self.ff1, self.hmac, self.hmac_length,
                                self.zero_pad_length, num)
    IN  IF bytes.kind # "Ok" THEN bytes
        ELSE IF Len(bytes.val) > MAX_BUFFER THEN Panic("encode_u128")
        ELSE IF Len(bytes.val) < MAX_BUFFER
             THEN Ok(bytes.val \o <<SENTINEL>>
                       \o Zeros(MAX_BUFFER - Len(bytes.val) - 1))
             ELSE Ok(bytes.val)

encode(self, num) ==
    LET packed == encode_u128(self, num)
    IN  IF packed.kind # "Ok" THEN packed
        ELSE Ok(self.prefix \o base62_encode(packed.val))

\* encode_uuid with the codec's own lengths in place of 8 and 8.
encode_uuid_configured(self, num) ==
    LET vec == encrypt_number(self.ff1, self.hmac, self.hmac_length,
                              self.zero_pad_length, num)
    IN  IF vec.kind # "Ok" THEN vec
        ELSE IF Len(vec.val) # MAX_BUFFER THEN Panic("encode_uuid")
        ELSE Ok(vec.val)

\* A Uuid is held as its 16 bytes: Uuid::from_u128_le(u128::from_le_bytes(v))
\* has the bytes of v in order.
encode_uuid(self, num) ==
    LET vec == encrypt_number(self.ff1, self.hmac, 8, 8, num)
    IN  IF vec.kind # "Ok" THEN vec
        ELSE IF Len(vec.val) # MAX_BUFFER THEN Panic("encode_uuid")
        ELSE Ok(vec.val)

\* The result of a stage of decode with the stages run so far.
Staged(res, steps) == [res |-> res, steps |-> steps]

\* decrypt_number with the MAC verified before the length is checked.
decrypt_number_mac_first(codec, encrypted_data) ==
    LET at            == Max2(Len(encrypted_data) - codec.hmac_length, 0)
        encrypted_num == Take(encrypted_data, at)
        received_mac  == Drop(encrypted_data, at)
    IN  IF truncated_mac(codec.hmac, encrypted_num, codec.hmac_length)
              # received_mac
        THEN Staged(Err("IncorrectMAC"), <<"mac">>)
        ELSE IF Len(encrypted_data) < codec.hmac_length + codec.zero_pad_length
        THEN Staged(Err("InvalidDataLength"), <<"mac", "length">>)
        ELSE
        LET decrypted_num == ff1_decrypt(codec.ff1, encrypted_num)
        IN  IF decrypted_num.kind # "Ok"
            THEN Staged(Err("DecryptionFailed"), <<"mac", "length", "decrypt">>)
            ELSE Staged(le_vec_to_num(decrypted_num.val),
                        <<"mac", "length", "decrypt", "reassemble">>)

decrypt_number(codec, encrypted_data) ==
    IF Len(encrypted_data) < codec.hmac_length + codec.zero_pad_length
    THEN Staged(Err("InvalidDataLength"), <<"length">>)
    ELSE
    LET at            == Len(encrypted_data) - codec.hmac_length
        encrypted_num == Take(encrypted_data, at)
        received_mac  == Drop(encrypted_data, at)
    IN  IF truncated_mac(codec.hmac, encrypted_num, codec.hmac_length)
              # received_mac
        THEN Staged(Err("IncorrectMAC"), <<"length", "mac">>)
        ELSE
        LET decrypted_num == ff1_decrypt(codec.ff1, encrypted_num)
        IN  IF decrypted_num.kind # "Ok"
            THEN Staged(Err("DecryptionFailed"), <<"length", "mac", "decrypt">>)
            ELSE Staged(le_vec_to_num(decrypted_num.val),
                        <<"length", "mac", "decrypt", "reassemble">>)

\* encoded.find('_') in place of rfind: the first underscore.
find_underscore(encoded) ==
    LET us == {i \in 1..Len(encoded) : encoded[i] = "_"}
    IN  IF us = {} THEN 0 ELSE CHOOSE i \in us : \A j \in us : i <= j

\* encoded.rfind('_'): the 1-based place of the last underscore, 0 for None.
rfind_underscore(encoded) ==
    LET us == {i \in 1..Len(encoded) : encoded[i] = "_"}
    IN  IF us = {} THEN 0 ELSE CHOOSE i \in us : \A j \in us : j <= i

\* received_prefix that stops before the underscore: encoded[..i].
received_prefix_exclusive(encoded) ==
    Take(encoded, Max2(rfind_underscore(encoded) - 1, 0))

\* None => "", Some(i) => encoded[..i + 1]
received_prefix(encoded) == Take(encoded, rfind_underscore(encoded))

\* decode once the prefix has matched: the digits after it are parsed, the
\* payload is found in the 16 bytes and handed to decrypt_number.
\* decode_tail that looks for the sentinel whatever the lengths are.
decode_tail_sentinel_always(self, tail) ==
    LET num == base62_decode(tail)
    IN  IF num.kind # "Ok" THEN Staged(num, <<"base62">>)
        ELSE
        LET num_array == num.val
            length    == last_nonzero(num_array)
            before    == <<"base62", "sentinel">>
        IN  IF num_array[length + 1] # SENTINEL
            THEN Staged([kind |-> "SentinelMismatch",
                         received |-> num_array[length + 1],
                         expected |-> SENTINEL], before)
            ELSE LET r == decrypt_number(self, Take(num_array, length))
                 IN  Staged(r.res, before \o r.steps)

decode_tail(self, tail) ==
    LET num == base62_decode(tail)
    IN  IF num.kind # "Ok" THEN Staged(num, <<"base62">>)
        ELSE
        LET num_array == num.val
            sentinel  == self.hmac_length + self.zero_pad_length < MAX_BUFFER
            length    == IF sentinel THEN last_nonzero(num_array)
                         ELSE MAX_BUFFER
            before    == IF sentinel THEN <<"base62", "sentinel">>
                         ELSE <<"base62">>
        IN  IF sentinel /\ num_array[length + 1] # SENTINEL
            THEN Staged([kind |-> "SentinelMismatch",
                         received |-> num_array[length + 1],
                         expected |-> SENTINEL], before)
            ELSE LET r == decrypt_number(self, Take(num_array, length))
                 IN  Staged(r.res, before \o r.steps)

\* decode that strips the prefix and never compares it.
decode_unchecked(self, encoded) ==
    LET r == decode_tail(self, Drop(encoded, rfind_underscore(encoded)))
    IN  Staged(r.res, <<"prefix">> \o r.steps)

decode(self, encoded) ==
    LET received == received_prefix(encoded)
    IN  IF received # self.prefix
        THEN Staged([kind |-> "InvalidPrefix", received |-> received,
                     expected |-> self.prefix], <<"prefix">>)
        ELSE LET r == decode_tail(self, Drop(encoded, Len(self.prefix)))
             IN  Staged(r.res, <<"prefix">> \o r.steps)

\* ---------------------------------------------------------- the callers

\* Largest argument the model hands to a Config setter (a u8 in the code).
MaxArg == 9

\* Longest ciphertext of a crafted decode input, in bytes.
MaxCraftLen == 9

\* The master keys (Config::new takes any byte slice).
Keys == { <<84, 107>> }

\* The codec names; one holds an underscore itself.
Names == { <<"t">>, <<"u">>, <<"t", "_", "u">> }

U64_MAX == [i \in 1..U64_BYTES |-> 255]

\* The numbers encoded: one for each plaintext length that matters.
Nums ==
    { Zeros(U64_BYTES),
      <<123>> \o Zeros(7),
      <<255, 255>> \o Zeros(6),
      <<0, 0, 1>> \o Zeros(5),
      <<9, 8, 7, 6, 5>> \o Zeros(3),
      U64_MAX }

\* encoded with the character at place p replaced by c.
ReplaceChar(encoded, p, c) == [encoded EXCEPT ![p] = c]

\* The characters a tampered token gets.
TamperChars == { "_", "0", "y" }

\* The places of a token that are tampered with: the first character, the
\* underscore that ends the prefix, the first, second and last digit.
TamperPlaces == { "first", "underscore", "digit", "second", "last" }

PlaceIn(prefix, token, place) ==
    CASE place = "first"      -> 1
      [] place = "underscore" -> Len(prefix)
      [] place = "digit"      -> Len(prefix) + 1
      [] place = "second"     -> IF Len(token) > Len(prefix) + 1
                                 THEN Len(prefix) + 2 ELSE Len(token)
      [] place = "last"       -> Len(token)

\* A 16-byte buffer holding payload and, if there is room, the byte s after
\* it; payloads longer than the buffer are cut.
Pack(payload, s) ==
    IF Len(payload) >= MAX_BUFFER THEN Take(payload, MAX_BUFFER)
    ELSE payload \o <<s>> \o Zeros(MAX_BUFFER - Len(payload) - 1)

\* A crafted token: k bytes of ciphertext, the codec's tag of it with d added
\* to its last byte, and the byte s where the sentinel goes.
Craft(c, k, d, s) ==
    LET ct  == [i \in 1..k |-> (37 * i + k) % 256]
        tag == truncated_mac(c.hmac, ct, c.hmac_length)
        bad == IF tag = <<>> THEN tag
               ELSE [tag EXCEPT ![Len(tag)] = (tag[Len(tag)] + d) % 256]
    IN  c.prefix \o base62_encode(Pack(ct \o bad, s))

\* How a crafted token is off: not at all, in its tag, in its sentinel.
CraftKinds == { <<0, SENTINEL>>, <<1, SENTINEL>>, <<0, 2>> }

\* Strings that are no token of any codec.
Literals(c) ==
    { <<>>, <<"h", "H">>, <<"_", "h", "H">>, <<"w", "_", "h", "H">>,
      c.prefix, c.prefix \o <<"0">>, c.prefix \o <<"h", "+", "H">>,
      <<"x">> \o c.prefix \o <<"1">>,
      c.prefix \o [i \in 1..22 |-> "z"] }

\* ---------------------------------------------------------- state machine

NoCodec == [prefix |-> <<>>]
NoCall  == [op |-> "none"]
NoRet   == [kind |-> "none"]

VARIABLES
    config,   \* the Config the caller holds
    codec,    \* the Codec built from it, or NoCodec
    call,     \* the call in hand: its operation and arguments
    ret,      \* what the call returned
    steps,    \* the stages the call ran, for a decode
    pc,       \* "config": no codec yet, "idle": ready, "done": a call returned
    global_config,  \* GLOBAL_CONFIG: the Option<Config> behind the mutex
    cache,          \* CODEC_CACHE of each thread: name -> codec
    fcall,          \* the call on the holder or on a Field, and its thread
    fret,           \* what that call returned
    held            \* what the caller holds from the last Config::global()

\* The state of the core (a caller with its own Config and Codec) and the
\* state of the collaborators (the global holder and the per-thread caches).
cvars == <<config, codec, call, ret, steps, pc>>
fvars == <<global_config, cache, fcall, fret, held>>
vars == <<config, codec, call, ret, steps, pc, global_config, cache, fcall,
         fret, held>>

\* Option<Config>
None == [kind |-> "None"]
Some(c) == [kind |-> "Some", val |-> c]

\* The threads that use Field values, each with its own CODEC_CACHE.
Threads == { "t1", "t2" }

\* HashMap::new(): the map with no key.
EmptyMap == <<>>

Init ==
    /\ \E key \in Keys : config = ConfigNew(key)
    /\ codec = NoCodec
    /\ call = NoCall
    /\ ret = NoRet
    /\ steps = <<>>
    /\ pc = "config"
    /\ global_config = None
    /\ cache = [t \in Threads |-> EmptyMap]
    /\ fcall = NoCall
    /\ fret = NoRet
    /\ held = NoRet

\* config.hmac_length(v): the caller keeps the Config an Ok returns.
SetHmacLength(v) ==
    /\ pc = "config"
    /\ LET r == Config_hmac_length(config, v)
       IN  /\ config' = IF r.kind = "Ok" THEN r.val ELSE config
           /\ ret' = r
    /\ call' = [op |-> "hmac_length", self |-> config, arg |-> v]
    /\ UNCHANGED <<codec, steps, pc, fvars>>

\* config.zero_pad_length(v)
SetZeroPadLength(v) ==
    /\ pc = "config"
    /\ LET r == Config_zero_pad_length(config, v)
       IN  /\ config' = IF r.kind = "Ok" THEN r.val ELSE config
           /\ ret' = r
    /\ call' = [op |-> "zero_pad_length", self |-> config, arg |-> v]
    /\ UNCHANGED <<codec, steps, pc, fvars>>

\* Codec::new(name, &config); the Config is settled from here on.
NewCodec(name) ==
    /\ pc \in {"config", "idle"}
    /\ codec' = CodecNew(name, config)
    /\ call' = NoCall
    /\ ret' = NoRet
    /\ steps' = <<>>
    /\ pc' = "idle"
    /\ UNCHANGED <<config, fvars>>

\* codec.encode(num)
Encode(num) ==
    /\ pc = "idle"
    /\ call' = [op |-> "encode", num |-> num]
    /\ ret' = encode(codec, num)
    /\ steps' = <<>>
    /\ pc' = "done"
    /\ UNCHANGED <<config, codec, fvars>>

\* codec.encode_uuid(num)
EncodeUuid(num) ==
    /\ pc = "idle"
    /\ call' = [op |-> "encode_uuid", num |-> num]
    /\ ret' = encode_uuid(codec, num)
    /\ steps' = <<>>
    /\ pc' = "done"
    /\ UNCHANGED <<config, codec, fvars>>

\* codec.decode(encoded); from tells where the caller has the string from.
Decode(encoded, from) ==
    /\ call' = [op |-> "decode", encoded |-> encoded, from |-> from]
    /\ \E r \in {decode(codec, encoded)} :
           /\ ret' = r.res
           /\ steps' = r.steps
    /\ pc' = "done"
    /\ UNCHANGED <<config, codec, fvars>>

\* The codec decodes the token that the codec of this name, built from the
\* same Config, issues for num (its own name: the round trip).
DecodeIssued(name, num) ==
    /\ pc = "idle"
    /\ \E t \in {encode(CodecNew(name, config), num)} :
           /\ t.kind = "Ok"
           /\ Decode(t.val, [kind |-> "issued", name |-> name, num |-> num])

\* The codec decodes its own token for num with one character replaced.
DecodeTampered(num) ==
    /\ pc = "idle"
    /\ \E t \in {encode(codec, num)} :
           /\ t.kind = "Ok"
           /\ \E place \in TamperPlaces, c \in TamperChars :
                LET p == PlaceIn(codec.prefix, t.val, place)
                IN  /\ t.val[p] # c
                    /\ Decode(ReplaceChar(t.val, p, c),
                              [kind |-> "tampered", num |-> num, place |-> p])

\* The codec decodes a token crafted from a ciphertext of k bytes.
DecodeCrafted(k, v) ==
    /\ pc = "idle"
    /\ \E encoded \in {Craft(codec, k, v[1], v[2])} :
           Decode(encoded, [kind |-> "crafted", k |-> k, d |-> v[1], s |-> v[2]])

\* The codec decodes a string that is no token.
DecodeLiteral ==
    /\ pc = "idle"
    /\ \E encoded \in Literals(codec) : Decode(encoded, [kind |-> "literal"])

\* The caller takes the result; a panic ends the caller.
Return ==
    /\ pc = "done"
    /\ ret.kind # "panic"
    /\ call' = NoCall
    /\ ret' = NoRet
    /\ steps' = <<>>
    /\ pc' = "idle"
    /\ UNCHANGED <<config, codec, fvars>>

Next ==
    \/ \E v \in 0..MaxArg : SetHmacLength(v)
    \/ \E v \in 0..MaxArg : SetZeroPadLength(v)
    \/ \E name \in Names : NewCodec(name)
    \/ \E num \in Nums : Encode(num)
    \/ \E num \in Nums : EncodeUuid(num)
    \/ \E name \in Names, num \in Nums : DecodeIssued(name, num)
    \/ \E num \in Nums : DecodeTampered(num)
    \/ \E k \in 0..MaxCraftLen, v \in CraftKinds : DecodeCrafted(k, v)
    \/ DecodeLiteral
    \/ Return

Spec == Init /\ [][Next]_vars


\* ------------------------------------- the global holder and the Field type

\* Config::set_global(config): the lock is taken and the holder overwritten.
set_global(holder, c) == Some(c)

\* Config::global(): a clone of what the holder contains.
global(holder) == holder

\* HashMap::insert
MapInsert(m, k, v) ==
    [n \in (DOMAIN m) \cup {k} |-> IF n = k THEN v ELSE m[n]]

\* get_or_create_codec(name) on a thread whose cache is m: the cached codec
\* if there is one, else a new codec from the holder's Config, which is
\* unwrapped and then cached.  The result and the cache afterwards.
get_or_create_codec(m, holder, name) ==
    IF name \in DOMAIN m
    THEN [ret |-> Ok(m[name]), cache |-> m]
    ELSE LET g == global(holder)
         IN  IF g.kind = "None"
             THEN [ret |-> Panic("get_or_create_codec"), cache |-> m]
             ELSE LET c == CodecNew(name, g.val)
                  IN  [ret |-> Ok(c), cache |-> MapInsert(m, name, c)]

\* The Configs the application sets, the type markers' names and the ids.
FieldConfigs == { ConfigNew(<<84, 107>>), ConfigNew(<<107, 50>>) }
FieldNames == { <<"t">>, <<"u">> }
FieldIds == { <<57, 48, 0, 0, 0, 0, 0, 0>> }

\* Config::set_global(c), from any thread.
SetGlobal(c) ==
    /\ global_config' = set_global(global_config, c)
    /\ fcall' = [op |-> "set_global", arg |-> c]
    /\ fret' = NoRet
    /\ UNCHANGED <<cache, held, cvars>>

\* Config::global(), from any thread.
Global ==
    /\ fcall' = [op |-> "global"]
    /\ fret' = global(global_config)
    /\ held' = fret'
    /\ UNCHANGED <<global_config, cache, cvars>>

\* The codec of a Field operation has been looked up (g) and used (out).
\* A panic unwinds out of the operation and leaves the cache as it was.
FieldOp(t, op, name, arg, g, out) ==
    /\ cache' = [cache EXCEPT ![t] = g.cache]
    /\ fcall' = [op |-> op, thread |-> t, name |-> name, arg |-> arg,
                 holder |-> global_config]
    /\ fret' = [codec |-> g.ret, out |-> out]
    /\ UNCHANGED <<global_config, held, cvars>>

\* Field::<T>::from(id).serialize(..) on thread t, with T::name() = name.
FieldSerialize(t, name, id) ==
    /\ id \in FieldIds
    /\ \E g \in {get_or_create_codec(cache[t], global_config, name)} :
           FieldOp(t, "serialize", name, id, g,
                   IF g.ret.kind = "Ok" THEN encode(g.ret.val, id) ELSE g.ret)

\* Field::<T>::deserialize(..) of a string on thread t; the string is the
\* token that a codec of this name issues for id under the Config conf.
FieldDeserialize(t, name, conf, id) ==
    /\ id \in FieldIds
    /\ \E tok \in {encode(CodecNew(name, conf), id)},
          g \in {get_or_create_codec(cache[t], global_config, name)} :
           /\ tok.kind = "Ok"
           /\ FieldOp(t, "deserialize", name, tok.val, g,
                      IF g.ret.kind = "Ok" THEN decode(g.ret.val, tok.val).res
                                           ELSE g.ret)

\* Field::<T>::from(id).encode_uuid() on thread t.
FieldEncodeUuid(t, name, id) ==
    /\ id \in FieldIds
    /\ \E g \in {get_or_create_codec(cache[t], global_config, name)} :
           FieldOp(t, "encode_uuid", name, id, g,
                   IF g.ret.kind = "Ok" THEN encode_uuid(g.ret.val, id)
                                        ELSE g.ret)

NextField ==
    \/ \E c \in FieldConfigs : SetGlobal(c)
    \/ Global
    \/ \E t \in Threads, name \in FieldNames, id \in FieldIds :
           FieldSerialize(t, name, id)
    \/ \E t \in Threads, name \in FieldNames, conf \in FieldConfigs,
          id \in FieldIds : FieldDeserialize(t, name, conf, id)
    \/ \E t \in Threads, name \in FieldNames, id \in FieldIds :
           FieldEncodeUuid(t, name, id)

SpecField == Init /\ [][NextField]_vars


\* ----------------------------------------------------------------- claims

\* The seven variants of Error.
ErrorKinds ==
    { "DecodingFailed", "DecryptionFailed", "EncryptionFailed", "IncorrectMAC",
      "InvalidDataLength", "InvalidPrefix", "SentinelMismatch" }

\* C1: round trip.  Whenever the codec decodes a token that it issued itself
\* for a number n, the result is Ok(n).
C1_RoundTrip ==
    (/\ call.op = "decode"
     /\ call.from.kind = "issued"
     /\ call.from.name \o <<"_">> = codec.prefix)
        => ret = Ok(call.from.num)

\* C2: decode ends with Ok or with one of the seven errors, never in a panic.
C2_DecodeNeverPanics ==
    call.op = "decode" => ret.kind \in {"Ok"} \cup ErrorKinds

\* C3: encode is total: it returns a token for every number.
C3_EncodeTotal ==
    call.op = "encode" => ret.kind = "Ok"

\* C4: tamper sensitivity.  With hmac_length > 0, decoding a token of the
\* codec for n in which one character was replaced by another never
\* returns Ok(n).
C4_TamperSensitive ==
    (/\ call.op = "decode"
     /\ call.from.kind = "tampered"
     /\ codec.hmac_length > 0)
        => ret # Ok(call.from.num)

\* A token tampered with in its first digit is decoded under a MAC; the
\* replaced digit made the leading digit zero.
C4_Witness ==
    /\ call.op = "decode"
    /\ call.from.kind = "tampered"
    /\ codec.hmac_length > 0
    /\ call.from.place = Len(codec.prefix) + 1
    /\ call.encoded[call.from.place] = "0"
    /\ ret.kind \in ErrorKinds

\* C5: prefix isolation.  A token issued by a codec of another name, built
\* from the same key and lengths, is refused with InvalidPrefix.
C5_PrefixIsolation ==
    (/\ call.op = "decode"
     /\ call.from.kind = "issued"
     /\ call.from.name \o <<"_">> # codec.prefix)
        => ret.kind = "InvalidPrefix"

\* The codec "t" refuses a token of the codec "t_u", whose name starts with
\* the prefix of "t".
C5_Witness ==
    /\ call.op = "decode"
    /\ call.from.kind = "issued"
    /\ call.from.name = <<"t", "_", "u">>
    /\ codec.prefix = <<"t", "_">>
    /\ ret.kind = "InvalidPrefix"

\* The part of s up to and including its last underscore, empty without one.
ThroughLastUnderscore(s) ==
    LET ends == {k \in 0..Len(s) : k = 0 \/ s[k] = "_"}
    IN  Take(s, CHOOSE k \in ends : \A j \in ends : j <= k)

\* C6: with r the part of the input up to and including its last
\* underscore, decode returns InvalidPrefix{received: r, expected: prefix}
\* when r differs from the prefix, and never InvalidPrefix when r is the
\* prefix.
C6_InvalidPrefix ==
    call.op = "decode" =>
        LET r == ThroughLastUnderscore(call.encoded)
        IN  IF r # codec.prefix
            THEN ret = [kind |-> "InvalidPrefix", received |-> r,
                        expected |-> codec.prefix]
            ELSE ret.kind # "InvalidPrefix"

\* A tampered token with two underscores after the name is refused with
\* the longer part as received.
C6_Witness ==
    /\ call.op = "decode"
    /\ call.from.kind = "tampered"
    /\ ret.kind = "InvalidPrefix"
    /\ Len(ret.received) > Len(codec.prefix)

\* C7: Config::new gives 4 and 4; a setter refuses a value above 8 with its
\* error and otherwise changes its own field only; so both lengths of every
\* Config are in 0..8.
C7_ConfigRange ==
    /\ config.hmac_length \in 0..8
    /\ config.zero_pad_length \in 0..8
    /\ (pc = "config" /\ call = NoCall) =>
          config.hmac_length = 4 /\ config.zero_pad_length = 4
    /\ call.op = "hmac_length" =>
          IF call.arg > 8 THEN ret = Err("InvalidMacLength")
          ELSE /\ ret = Ok(config)
               /\ config.hmac_length = call.arg
               /\ config.key = call.self.key
               /\ config.zero_pad_length = call.self.zero_pad_length
    /\ call.op = "zero_pad_length" =>
          IF call.arg > 8 THEN ret = Err("InvalidZeroPadLength")
          ELSE /\ ret = Ok(config)
               /\ config.zero_pad_length = call.arg
               /\ config.key = call.self.key
               /\ config.hmac_length = call.self.hmac_length

\* After hmac_length(8) succeeded, zero_pad_length(9) is refused.
C7_Witness ==
    /\ call.op = "zero_pad_length"
    /\ call.arg = 9
    /\ ret = Err("InvalidZeroPadLength")
    /\ config.hmac_length = 8

\* C8: the payload of encrypt_number is at most 16 bytes, so the copy into
\* the 16-byte array and the sentinel write of encode_u128 stay in bounds,
\* and the payload of encode_uuid is exactly 16 bytes.
C8_PayloadFits ==
    /\ call.op = "encode" =>
          /\ ~(ret.kind = "panic" /\ ret.at \in {"encode_u128", "num_to_le_vec"})
          /\ LET bytes == encrypt_number(codec.ff1, codec.hmac, codec.hmac_length,
                                         codec.zero_pad_length, call.num)
                 u128  == encode_u128(codec, call.num)
             IN  bytes.kind = "Ok" =>
                    /\ Len(bytes.val) <= MAX_BUFFER
                    /\ u128.kind = "Ok"
                    /\ Len(u128.val) = MAX_BUFFER
    /\ call.op = "encode_uuid" =>
          /\ ret.kind = "Ok"
          /\ Len(ret.val) = MAX_BUFFER

\* u64::MAX under hmac_length 8: the payload fills the 16 bytes.
C8_Witness ==
    /\ call.op = "encode"
    /\ call.num = U64_MAX
    /\ codec.hmac_length = 8
    /\ ret.kind = "Ok"

\* The stages of decode in their order; the sentinel stage is there only
\* when hmac_length + zero_pad_length < 16.
StageOrder(c) ==
    IF c.hmac_length + c.zero_pad_length < MAX_BUFFER
    THEN <<"prefix", "base62", "sentinel", "length", "mac", "decrypt",
           "reassemble">>
    ELSE <<"prefix", "base62", "length", "mac", "decrypt", "reassemble">>

\* The error each stage fails with.
ErrorOfStage ==
    [ prefix |-> "InvalidPrefix", base62 |-> "DecodingFailed",
      sentinel |-> "SentinelMismatch", length |-> "InvalidDataLength",
      mac |-> "IncorrectMAC", decrypt |-> "DecryptionFailed" ]

\* The stage at which decoding encoded with c fails first, "reassemble" when
\* none does, from the claim's description of the stages.
FirstFailure(c, encoded) ==
    IF ThroughLastUnderscore(encoded) # c.prefix THEN "prefix"
    ELSE
    LET num == base62_decode(Drop(encoded, Len(c.prefix)))
    IN  IF num.kind # "Ok" THEN "base62"
        ELSE
        LET sentinel == c.hmac_length + c.zero_pad_length < MAX_BUFFER
            top      == last_nonzero(num.val)
            payload  == IF sentinel THEN Take(num.val, top) ELSE num.val
            at       == Len(payload) - c.hmac_length
        IN  IF sentinel /\ num.val[top + 1] # SENTINEL THEN "sentinel"
            ELSE IF Len(payload) < c.hmac_length + c.zero_pad_length
            THEN "length"
            ELSE IF Take(hmac_sha256(c.hmac, Take(payload, at)), c.hmac_length)
                       # Drop(payload, at)
            THEN "mac"
            ELSE IF ff1_decrypt(c.ff1, Take(payload, at)).kind # "Ok"
            THEN "decrypt"
            ELSE "reassemble"

\* C9: decode runs its stages in the fixed order, stops at the first stage
\* that fails and reports that stage's error; no later stage is run.
C9_StageOrder ==
    call.op = "decode" =>
        \E stage \in {FirstFailure(codec, call.encoded)} :
            /\ steps # <<>>
            /\ steps = Take(StageOrder(codec), Len(steps))
            /\ steps[Len(steps)] = stage
            /\ IF stage = "reassemble" THEN ret.kind \in {"Ok", "panic"}
               ELSE ret.kind = ErrorOfStage[stage]

\* A crafted token both too short and with a wrong tag fails with
\* InvalidDataLength: the MAC was not computed.
C9_Witness ==
    /\ call.op = "decode"
    /\ call.from.kind = "crafted"
    /\ call.from.d = 1
    /\ codec.hmac_length > 0
    /\ ret.kind = "InvalidDataLength"
    /\ steps = <<"prefix", "base62", "sentinel", "length">>

\* The Config of key with the two lengths set through the setters.
ConfigOf(key, h, z) ==
    Config_zero_pad_length(Config_hmac_length(ConfigNew(key), h).val, z).val

\* C10: encode_uuid gives the same Uuid under every pair of configured
\* lengths for the same name and key; its 16 bytes are the 8 bytes of
\* ciphertext of the whole number followed by the first 8 bytes of its tag.
C10_UuidIgnoresLengths ==
    call.op = "encode_uuid" =>
        /\ ret.kind = "Ok"
        /\ \A h \in 0..MAX_LENGTH, z \in 0..MAX_LENGTH :
              encode_uuid(CodecNew(Take(codec.prefix, Len(codec.prefix) - 1),
                                   ConfigOf(config.key, h, z)),
                          call.num) = ret
        /\ Len(ret.val) = MAX_BUFFER
        /\ Ok(Take(ret.val, U64_BYTES)) = ff1_encrypt(codec.ff1, call.num)
        /\ Drop(ret.val, U64_BYTES)
              = Take(hmac_sha256(codec.hmac, Take(ret.val, U64_BYTES)), 8)

\* A Uuid for 0 from a codec whose lengths are both 0.
C10_Witness ==
    /\ call.op = "encode_uuid"
    /\ codec.hmac_length = 0
    /\ codec.zero_pad_length = 0
    /\ call.num = Zeros(U64_BYTES)
    /\ ret.kind = "Ok"


\* C11: the holder is set-once.  Once Config::global() has returned Some(c),
\* every later Config::global() returns the same c, whatever set_global
\* calls come in between.
C11_SetOnce ==
    [][held.kind = "Some" => held' = held]_vars

\* C14: the codec cache is consistent with the holder.  Whenever a Field
\* operation looks up a name while the holder contains a Config c, the codec
\* it gets is Codec::new(name, c).
C14_CacheConsistent ==
    (/\ fcall.op \in {"serialize", "deserialize", "encode_uuid"}
     /\ fcall.holder.kind = "Some")
        => fret.codec = Ok(CodecNew(fcall.name, fcall.holder.val))


\* The bytes needed to represent a number (little-endian bytes): one for 0.
BytesNeeded(num) ==
    CHOOSE k \in 1..Len(num) :
        /\ \A i \in (k + 1)..Len(num) : num[i] = 0
        /\ k = 1 \/ num[k] # 0

\* The 16 bytes that the digits of a token stand for.
BufferOf(c, token) == base62_decode(Drop(token, Len(c.prefix))).val

\* C12: the packed buffer of encode.  The plaintext has
\* min(8, max(zero_pad_length, bytes needed)) bytes; the buffer holds the
\* ciphertext and then the hmac_length bytes of the tag from offset 0, the
\* sentinel 1 right after them exactly when they are fewer than 16, and
\* zero in every byte above.
C12_PackedLayout ==
    (call.op = "encode" /\ ret.kind = "Ok") =>
        LET buf   == BufferOf(codec, ret.val)
            n     == Max2(codec.zero_pad_length, BytesNeeded(call.num))
            ptlen == IF n < U64_BYTES THEN n ELSE U64_BYTES
            L     == ptlen + codec.hmac_length
            ct    == ff1_encrypt(codec.ff1, Take(call.num, ptlen)).val
            tag   == Take(hmac_sha256(codec.hmac, ct), codec.hmac_length)
        IN  /\ Len(buf) = MAX_BUFFER
            /\ L <= MAX_BUFFER
            /\ Take(buf, L) = ct \o tag
            /\ L < MAX_BUFFER =>
                  /\ buf[L + 1] = SENTINEL
                  /\ \A i \in (L + 2)..MAX_BUFFER : buf[i] = 0

\* A number of one significant byte padded to 4, with a tag of 2 bytes:
\* the sentinel is at offset 6.
C12_Witness ==
    /\ call.op = "encode"
    /\ ret.kind = "Ok"
    /\ BytesNeeded(call.num) = 1
    /\ codec.zero_pad_length = 4
    /\ codec.hmac_length = 2
    /\ BufferOf(codec, ret.val)[7] = SENTINEL

\* The index (from 0) of the highest non-zero byte, 0 when all are zero.
HighestNonZero(buf) ==
    IF \A i \in 1..Len(buf) : buf[i] = 0 THEN 0
    ELSE (CHOOSE k \in 1..Len(buf) :
             buf[k] # 0 /\ \A i \in (k + 1)..Len(buf) : buf[i] = 0) - 1

\* C13: the sentinel on decode.  For a token with the codec's prefix and
\* digits that decode: if hmac_length + zero_pad_length < 16, the byte at the
\* highest non-zero index must be 1, else SentinelMismatch with that byte as
\* received, and the payload is the bytes below that index; if the lengths
\* add up to 16 no sentinel is looked for and the payload is all 16 bytes.
C13_Sentinel ==
    (/\ call.op = "decode"
     /\ ThroughLastUnderscore(call.encoded) = codec.prefix
     /\ base62_decode(Drop(call.encoded, Len(codec.prefix))).kind = "Ok") =>
        LET buf == BufferOf(codec, call.encoded)
            idx == HighestNonZero(buf)
        IN  IF codec.hmac_length + codec.zero_pad_length < MAX_BUFFER
            THEN /\ steps[3] = "sentinel"
                 /\ IF buf[idx + 1] # SENTINEL
                    THEN ret = [kind |-> "SentinelMismatch",
                                received |-> buf[idx + 1],
                                expected |-> SENTINEL]
                    ELSE ret = decrypt_number(codec, Take(buf, idx)).res
            ELSE /\ \A i \in 1..Len(steps) : steps[i] # "sentinel"
                 /\ ret = decrypt_number(codec, buf).res


\* A crafted token whose highest non-zero byte is 2, not the sentinel.
C13_Witness ==
    /\ call.op = "decode"
    /\ call.from.kind = "crafted"
    /\ codec.hmac_length + codec.zero_pad_length < MAX_BUFFER
    /\ ret = [kind |-> "SentinelMismatch", received |-> 2,
              expected |-> SENTINEL]


=============================================================================
